---- MODULE Spec2Model ----
(***************************************************************************)
(* A model of the bestbets-loader pipeline steps:                          *)
(*   - CategoryToMatchTransformer (category -> match records, with the     *)
(*     token-count cache and the fetchQueue flag around the analyze call)  *)
(*   - ElasticBestbetsLoader (begin / loadRecord / end against the         *)
(*     elastic-tools client)                                               *)
(* Every await of the JavaScript source is a point where another task may  *)
(* run; the code between two awaits is one atomic action.                  *)
(***************************************************************************)
EXTENDS Integers, Sequences, FiniteSets, TLC

VARIABLES tokenCache, fetchQueue, calls, xforms, analyzeLog, stranded,
          indexName, alias, gens, created, begins, loads, ends, aborts,
          config, validation, instance, constructed,
          source, bbListings, fetches, rtnCategories

tvars == <<tokenCache, fetchQueue, calls, xforms, analyzeLog, stranded>>
lvars == <<indexName, alias, gens, created, begins, loads, ends, aborts>>
cvars == <<config, validation, instance, constructed>>
svars == <<source, bbListings, fetches, rtnCategories>>
vars  == <<tokenCache, fetchQueue, calls, xforms, analyzeLog, stranded,
           indexName, alias, gens, created, begins, loads, ends, aborts,
           config, validation, instance, constructed,
           source, bbListings, fetches, rtnCategories>>

(***************************************************************************)
(* Bounds                                                                  *)
(***************************************************************************)
MaxCalls      == 3   \* tokenizeNameWrap invocations in one behaviour
MaxTransforms == 1   \* transform invocations in one behaviour
MaxTokens     == 1   \* largest token count the analyzer answers
MaxBegins     == 2   \* begin() invocations in one behaviour
MaxLoads      == 2   \* loadRecord() invocations in one behaviour
MaxEnds       == 1   \* end() invocations in one behaviour
MaxAborts     == 2   \* abort() invocations in one behaviour
MaxFiles      == 3   \* files in the listing getRecords is given

(***************************************************************************)
(* JavaScript values                                                       *)
(***************************************************************************)
\* An optional value: the empty set is `undefined`, {v} is the value v.
Undefined == {}
Some(v)   == {v}
Val(o)    == CHOOSE v \in o : TRUE

\* JavaScript truthiness of an optional number: undefined and 0 are falsy.
Truthy(o) == o # Undefined /\ o # Some(0)

\* Names are strings, modelled as sequences of characters.
UpperChars == {"D", "U", "N"}
ToLowerChar(c) ==
    CASE c = "D" -> "d"
      [] c = "U" -> "u"
      [] c = "N" -> "n"
      [] OTHER   -> c

toLowerCase(s) == [i \in DOMAIN s |-> ToLowerChar(s[i])]

\* The names used by the categories and by direct tokenizeNameWrap callers.
nmDUPES   == <<"D", "U">>
nmDupes   == <<"d", "u">>
nmNotDupe == <<"n", "d">>
nmEmpty   == <<>>

Names == {nmDUPES, nmDupes, nmNotDupe, nmEmpty}
Keys  == {toLowerCase(n) : n \in Names}


(***************************************************************************)
(* Categories (the records a source hands to transform)                    *)
(***************************************************************************)
Syn(name, exact) == [name |-> name, isExactMatch |-> exact]

\* The DUPES category of the test data: its own name, upper case, is
\* repeated in lower case among the include and the exclude synonyms.
CatDupes ==
    [categoryID |-> "DUPES", categoryName |-> nmDUPES, categoryWeight |-> 110,
     isExactMatch |-> FALSE,
     language |-> "en", categoryDisplay |-> "display-DUPES",
     includeSynonyms |-> <<Syn(nmDupes, FALSE), Syn(nmNotDupe, FALSE)>>,
     excludeSynonyms |-> <<Syn(nmDupes, FALSE), Syn(nmDupes, FALSE)>>]

CatNoSyns ==
    [categoryID |-> "1109313", categoryName |-> nmNotDupe, categoryWeight |-> 300,
     isExactMatch |-> TRUE,
     language |-> "en", categoryDisplay |-> "display-1109313",
     includeSynonyms |-> <<>>, excludeSynonyms |-> <<>>]

CatOnlyExclude ==
    [categoryID |-> "35884", categoryName |-> nmDupes, categoryWeight |-> 110,
     isExactMatch |-> FALSE,
     language |-> "es", categoryDisplay |-> "display-35884",
     includeSynonyms |-> <<>>,
     excludeSynonyms |-> <<Syn(nmNotDupe, TRUE)>>]

Categories == {CatDupes, CatNoSyns, CatOnlyExclude}

(***************************************************************************)
(* CategoryToMatchTransformer: pure helpers                                *)
(***************************************************************************)
SynNames(syns) == [i \in DOMAIN syns |-> syns[i].name]

\* DedupNames with the bug of comparing the names as they are, without
\* lower-casing them.
RECURSIVE DedupNames_CaseSensitive(_, _)
DedupNames_CaseSensitive(rest, ac) ==
    IF rest = <<>> THEN ac
    ELSE LET curr == Head(rest) IN
         DedupNames_CaseSensitive(Tail(rest),
                    IF \E i \in DOMAIN ac : ac[i] = curr
                    THEN ac
                    ELSE Append(ac, curr))

\* The reduce of extractNamesToTokenize: curr is appended unless some
\* element of ac equals it ignoring case.
RECURSIVE DedupNames(_, _)
DedupNames(rest, ac) ==
    IF rest = <<>> THEN ac
    ELSE LET curr == Head(rest) IN
         DedupNames(Tail(rest),
                    IF \E i \in DOMAIN ac : toLowerCase(ac[i]) = toLowerCase(curr)
                    THEN ac
                    ELSE Append(ac, curr))

extractNamesToTokenize(cat) ==
    DedupNames(<<cat.categoryName>> \o SynNames(cat.includeSynonyms)
                                    \o SynNames(cat.excludeSynonyms), <<>>)

extractMatchFromSyn(cat, isNeg, syn) ==
    [category |-> cat.categoryName, contentID |-> cat.categoryID,
     synonym |-> syn.name, language |-> cat.language,
     isNegated |-> isNeg, isExact |-> syn.isExactMatch,
     tokenCount |-> Some(0)]

\* The object tokenizeNames reduces its results into: a later result with
\* the same name overwrites an earlier one.
LookupOf(results) ==
    [nm \in {results[i].name : i \in DOMAIN results} |->
        LET last == CHOOSE i \in DOMAIN results :
                       /\ results[i].name = nm
                       /\ \A j \in DOMAIN results : results[j].name = nm => j <= i
        IN results[last].count]

\* lookup[name]: undefined when the object has no such property.
LookupGet(lookup, name) ==
    IF name \in DOMAIN lookup THEN lookup[name] ELSE Undefined

\* tokenizeName with the bug of analyzing the lower-cased name, the text
\* of the cache key.
AnalyzeText_LowerCased(name) == toLowerCase(name)

\* The text tokenizeName(name) puts in the body of its analyze call.
AnalyzeText(name) == name

\* One synchronous pass through tokenizeNameWrap, up to its first await.
tokenizeNameWrap(name, tc, fq) ==
    LET key == toLowerCase(name) IN
    IF Truthy(tc[key])
    THEN [pc |-> "resolved", res |-> tc[key], fq |-> fq, analyze |-> FALSE]
    ELSE IF fq[key] = "true"
    THEN [pc |-> "timeout", res |-> Undefined, fq |-> fq, analyze |-> FALSE]
    ELSE [pc |-> "analyze", res |-> Undefined,
          fq |-> [fq EXCEPT ![key] = "true"], analyze |-> TRUE]

\* The async callbacks Promise.all maps over nameArr: each runs, in array
\* order, up to its first await before the next one starts.
RECURSIVE StartCalls(_, _, _, _)
StartCalls(names, owner, tc, st) ==
    IF names = <<>> THEN st
    ELSE LET name == Head(names)
             r    == tokenizeNameWrap(name, tc, st.fq)
         IN StartCalls(Tail(names), owner, tc,
               [calls |-> Append(st.calls,
                            [name |-> name, pc |-> r.pc, res |-> r.res,
                             owner |-> owner, waited |-> r.pc = "timeout",
                             polls |-> 0]),
                fq    |-> r.fq,
                log   |-> IF r.analyze THEN Append(st.log, AnalyzeText(name))
                                      ELSE st.log])

\* MatchesOf with the bug of emitting the exclude records before the
\* include records.
MatchesOf_ExcludesFirst(cat, lookup) ==
    LET incMatches ==
            [i \in DOMAIN cat.includeSynonyms |->
                [extractMatchFromSyn(cat, FALSE, cat.includeSynonyms[i])
                   EXCEPT !.tokenCount = LookupGet(lookup, cat.includeSynonyms[i].name)]]
        exMatches ==
            [i \in DOMAIN cat.excludeSynonyms |->
                [extractMatchFromSyn(cat, TRUE, cat.excludeSynonyms[i])
                   EXCEPT !.tokenCount = LookupGet(lookup, cat.excludeSynonyms[i].name)]]
        catMatch ==
            [category |-> cat.categoryName, contentID |-> cat.categoryID,
             synonym |-> cat.categoryName, language |-> cat.language,
             isNegated |-> FALSE, isExact |-> cat.isExactMatch,
             tokenCount |-> LookupGet(lookup, cat.categoryName),
             categoryDisplay |-> cat.categoryDisplay]
    IN <<catMatch>> \o exMatches \o incMatches

\* The match list transform returns once the lookup is known.
MatchesOf(cat, lookup) ==
    LET incMatches ==
            [i \in DOMAIN cat.includeSynonyms |->
                [extractMatchFromSyn(cat, FALSE, cat.includeSynonyms[i])
                   EXCEPT !.tokenCount = LookupGet(lookup, cat.includeSynonyms[i].name)]]
        exMatches ==
            [i \in DOMAIN cat.excludeSynonyms |->
                [extractMatchFromSyn(cat, TRUE, cat.excludeSynonyms[i])
                   EXCEPT !.tokenCount = LookupGet(lookup, cat.excludeSynonyms[i].name)]]
        catMatch ==
            [category |-> cat.categoryName, contentID |-> cat.categoryID,
             synonym |-> cat.categoryName, language |-> cat.language,
             isNegated |-> FALSE, isExact |-> cat.isExactMatch,
             tokenCount |-> LookupGet(lookup, cat.categoryName),
             categoryDisplay |-> cat.categoryDisplay]
    IN <<catMatch>> \o incMatches \o exMatches


(***************************************************************************)
(* ElasticBestbetsLoader: configuration and inputs                         *)
(***************************************************************************)
aliasName        == "bestbets_v1"
daysToKeep       == 10
minIndexesToKeep == 2

\* The generation live before this run: the index the alias resolves to
\* when the loader is constructed.  Generations are named by the timestamp
\* part of <alias>_<timestamp>; the previous one has timestamp 0.
PreviousGens == {0}

\* Category ids are strings, modelled as sequences of characters; the
\* second one holds "_" and a digit itself.
idD  == <<"D">>
idD1 == <<"D", "_", "1">>

\* Match records handed to loadRecord: a synonym's record, the category's
\* record as loadRecord expects it (marked isCategory), and the category's
\* record as it is without the mark.
SynMatch(id, syn, neg) ==
    [category |-> nmDUPES, contentID |-> id, synonym |-> syn, language |-> "en",
     isNegated |-> neg, isExact |-> FALSE, tokenCount |-> Some(1)]

CatMatch(id) ==
    [category |-> nmDUPES, contentID |-> id, synonym |-> nmDUPES, language |-> "en",
     isNegated |-> FALSE, isExact |-> FALSE, tokenCount |-> Some(1),
     isCategory |-> TRUE, weight |-> 110, categoryDisplay |-> "display-DUPES"]

UnmarkedCatMatch(id) ==
    [category |-> nmDUPES, contentID |-> id, synonym |-> nmDUPES, language |-> "en",
     isNegated |-> FALSE, isExact |-> FALSE, tokenCount |-> Some(1),
     categoryDisplay |-> "display-DUPES"]

\* The lists: the empty list; a list with a marked record, which is not
\* its first; a list with no marked record.
MatchLists ==
    { <<>>,
      <<SynMatch(idD1, nmNotDupe, TRUE), CatMatch(idD)>>,
      <<UnmarkedCatMatch(idD1), SynMatch(idD, nmNotDupe, TRUE)>> }

\* match.isCategory, truthy only when the property is there and true.
IsCategory(match) == "isCategory" \in DOMAIN match /\ match.isCategory = TRUE

\* CategoryDisplayOf with the bug of leaving the filter out: the display
\* document is made from the first match, whatever it is.
CategoryDisplayOf_NoFilter(matches) ==
    IF matches = <<>> THEN Undefined
    ELSE LET cat == matches[1] IN
         Some([contentid |-> cat.contentID, name |-> cat.category,
               weight |-> IF "weight" \in DOMAIN cat THEN Some(cat.weight)
                                                     ELSE Undefined,
               content |-> IF "categoryDisplay" \in DOMAIN cat
                           THEN Some(cat.categoryDisplay) ELSE Undefined])

\* matches.filter(isCategory).map(...).shift(): the display document of the
\* first match marked isCategory, undefined when there is none.  A property
\* the match lacks is copied as undefined.
CategoryDisplayOf(matches) ==
    LET idx == {i \in DOMAIN matches : IsCategory(matches[i])} IN
    IF idx = {} THEN Undefined
    ELSE LET cat == matches[CHOOSE i \in idx : \A j \in idx : i <= j] IN
         Some([contentid |-> cat.contentID, name |-> cat.category,
               weight |-> IF "weight" \in DOMAIN cat THEN Some(cat.weight)
                                                     ELSE Undefined,
               content |-> IF "categoryDisplay" \in DOMAIN cat
                           THEN Some(cat.categoryDisplay) ELSE Undefined])

\* A number as the template literal prints it, in decimal digits.
DigitChar(d) ==
    CASE d = 0 -> "0" [] d = 1 -> "1" [] d = 2 -> "2" [] d = 3 -> "3"
      [] d = 4 -> "4" [] d = 5 -> "5" [] d = 6 -> "6" [] d = 7 -> "7"
      [] d = 8 -> "8" [] d = 9 -> "9"

RECURSIVE NumberToString(_)
NumberToString(n) ==
    IF n < 10 THEN <<DigitChar(n)>>
    ELSE NumberToString(n \div 10) \o <<DigitChar(n % 10)>>

\* DocIdOf with the bug of leaving the position out of the identifier.
DocIdOf_NoIndex(contentID, ci) == contentID

\* The template literal `${curr.contentID}_${ci}`.
DocIdOf(contentID, ci) == contentID \o <<"_">> \o NumberToString(ci)

\* The bulk index list: one [id, document] pair per match, in input order,
\* the index ci counted from 0.
DocArrOf(matches) ==
    [i \in DOMAIN matches |->
        [id  |-> DocIdOf(matches[i].contentID, i - 1),
         doc |-> [category |-> matches[i].category,
                  contentid |-> matches[i].contentID,
                  synonym |-> matches[i].synonym,
                  language |-> matches[i].language,
                  is_negated |-> matches[i].isNegated,
                  is_exact |-> matches[i].isExact,
                  tokencount |-> matches[i].tokenCount]]]

\* The two elastic-tools calls loadRecord issues.
BulkCall(index, docArr) ==
    [op |-> "indexDocumentBulk", index |-> index, type |-> "synonyms",
     docs |-> docArr]

DocCall(index, display) ==
    [op |-> "indexDocument", index |-> index, type |-> "categorydisplay",
     id |-> display.contentid, doc |-> display]

(***************************************************************************)
(* CategoryToMatchTransformer: state and actions                           *)
(*                                                                         *)
(*  tokenCache, fetchQueue : the two objects of the instance, by key       *)
(*  calls      : the tokenizeNameWrap invocations so far; pc is the await  *)
(*               the invocation is suspended at ("timeout", "analyze") or  *)
(*               how it settled ("resolved", "rejected"); owner is the     *)
(*               transform that made the call, 0 for a direct caller;      *)
(*               waited tells whether it ever took the timeout branch and  *)
(*               polls is the parity of the number of times its timeout    *)
(*               has elapsed                                               *)
(*  xforms     : the transform invocations so far; err is the call whose   *)
(*               rejection the transform's Promise.all has taken (0: none) *)
(*  analyzeLog : the text of every esclient.indices.analyze call issued    *)
(*  stranded   : history: the calls that were suspended at the timeout for *)
(*               a key at the moment an analyze call for that key rejected *)
(***************************************************************************)
\* The state after the two constructors.
Init ==
    /\ tokenCache = [k \in Keys |-> Undefined]
    /\ fetchQueue = [k \in Keys |-> "undefined"]
    /\ calls      = <<>>
    /\ xforms     = <<>>
    /\ analyzeLog = <<>>
    /\ stranded   = {}
    /\ indexName  = Undefined
    /\ alias      = PreviousGens
    /\ gens       = PreviousGens
    /\ created    = 0
    /\ begins     = <<>>
    /\ loads      = <<>>
    /\ ends       = <<>>
    /\ aborts     = <<>>
    /\ config     = Undefined
    /\ validation = Undefined
    /\ instance   = Undefined
    /\ constructed = Undefined
    /\ source     = [pc |-> "idle", err |-> Undefined, out |-> <<>>]
    /\ bbListings = Undefined
    /\ fetches    = <<>>
    /\ rtnCategories = <<>>

\* The calls transform t made, as indexes into calls.
CallsOf(t) == {c \in DOMAIN calls : calls[c].owner = t}

\* A caller outside transform invokes tokenizeNameWrap(name).
CallStart(name) ==
    /\ Len(calls) < MaxCalls
    /\ LET st == StartCalls(<<name>>, 0, tokenCache,
                    [calls |-> calls, fq |-> fetchQueue, log |-> analyzeLog])
       IN /\ calls'      = st.calls
          /\ fetchQueue' = st.fq
          /\ analyzeLog' = st.log
    /\ UNCHANGED <<tokenCache, xforms, stranded, lvars, cvars, svars>>

\* transform(data), up to the await of tokenizeNames' Promise.all.
TransformStart(cat) ==
    LET names == extractNamesToTokenize(cat)
        t     == Len(xforms) + 1
        st    == StartCalls(names, t, tokenCache,
                    [calls |-> calls, fq |-> fetchQueue, log |-> analyzeLog])
    IN /\ Len(xforms) < MaxTransforms
       /\ Len(calls) + Len(names) <= MaxCalls
       /\ calls'      = st.calls
       /\ fetchQueue' = st.fq
       /\ analyzeLog' = st.log
       /\ xforms'     = Append(xforms,
                          [cat |-> cat, names |-> names, first |-> Len(calls) + 1,
                           pc |-> "awaiting", out |-> <<>>, err |-> 0])
       /\ UNCHANGED <<tokenCache, stranded, lvars, cvars, svars>>

\* esclient.indices.analyze answers call c with n tokens: tokenizeName
\* returns n and tokenizeNameWrap runs from its await to its return.
AnalyzeReturns(c, n) ==
    /\ calls[c].pc = "analyze"
    /\ LET key == toLowerCase(calls[c].name) IN
       /\ tokenCache' = [tokenCache EXCEPT ![key] = Some(n)]
       /\ fetchQueue' = [fetchQueue EXCEPT ![key] = "false"]
       /\ calls' = [calls EXCEPT ![c].pc = "resolved", ![c].res = tokenCache'[key]]
    /\ UNCHANGED <<xforms, analyzeLog, stranded, lvars, cvars, svars>>

\* esclient.indices.analyze rejects: tokenizeName logs and rethrows, and the
\* throw leaves tokenizeNameWrap at its await.  The Promise.all of the
\* transform that made the call takes the first rejection it is given.
AnalyzeFails(c) ==
    /\ calls[c].pc = "analyze"
    /\ calls' = [calls EXCEPT ![c].pc = "rejected"]
    /\ stranded' = stranded \cup
                     {w \in DOMAIN calls :
                        /\ calls[w].pc = "timeout"
                        /\ toLowerCase(calls[w].name) = toLowerCase(calls[c].name)}
    /\ xforms' = LET t == calls[c].owner IN
                 IF t # 0 /\ xforms[t].err = 0
                 THEN [xforms EXCEPT ![t].err = c]
                 ELSE xforms
    /\ UNCHANGED <<tokenCache, fetchQueue, analyzeLog, lvars, cvars, svars>>

\* timeout(100) elapses for call c, which calls tokenizeNameWrap again.
TimeoutWake(c) ==
    /\ c \in DOMAIN calls
    /\ calls[c].pc = "timeout"
    /\ LET r == tokenizeNameWrap(calls[c].name, tokenCache, fetchQueue) IN
       /\ calls' = [calls EXCEPT ![c].pc = r.pc, ![c].res = r.res,
                                 ![c].polls = 1 - @]
       /\ fetchQueue' = r.fq
       /\ analyzeLog' = IF r.analyze THEN Append(analyzeLog, AnalyzeText(calls[c].name))
                                     ELSE analyzeLog
    /\ UNCHANGED <<tokenCache, xforms, stranded, lvars, cvars, svars>>

\* TransformJoin with the bug of pairing the names with the results of the
\* first calls the instance was given, whoever made them, not with the
\* results of the transform's own calls.
TransformJoin_OtherCallsResults(t) ==
    /\ xforms[t].pc = "awaiting"
    /\ \A c \in CallsOf(t) : calls[c].pc = "resolved"
    /\ LET x       == xforms[t]
           results == [i \in DOMAIN x.names |->
                         [name |-> x.names[i], count |-> calls[i].res]]
       IN xforms' = [xforms EXCEPT ![t].pc = "resolved",
                                   ![t].out = MatchesOf(x.cat, LookupOf(results))]
    /\ UNCHANGED <<tokenCache, fetchQueue, calls, analyzeLog, stranded, lvars, cvars, svars>>

\* Promise.all of tokenizeNames resolves: every call of the transform has
\* resolved; the lookup is reduced from the results and the matches built.
TransformJoin(t) ==
    /\ xforms[t].pc = "awaiting"
    /\ \A c \in CallsOf(t) : calls[c].pc = "resolved"
    /\ LET x       == xforms[t]
           results == [i \in DOMAIN x.names |->
                         [name |-> x.names[i], count |-> calls[x.first + i - 1].res]]
       IN xforms' = [xforms EXCEPT ![t].pc = "resolved",
                                   ![t].out = MatchesOf(x.cat, LookupOf(results))]
    /\ UNCHANGED <<tokenCache, fetchQueue, calls, analyzeLog, stranded, lvars, cvars, svars>>

\* TransformReject with the bug of settling the names one by one (as
\* Promise.allSettled does) and building the matches from the counts that
\* did arrive.
TransformReject_PartialResult(t) ==
    /\ xforms[t].pc = "awaiting"
    /\ \E c \in CallsOf(t) : calls[c].pc = "rejected"
    /\ LET x       == xforms[t]
           results == [i \in DOMAIN x.names |->
                         [name |-> x.names[i], count |-> calls[x.first + i - 1].res]]
       IN xforms' = [xforms EXCEPT ![t].pc = "resolved",
                                   ![t].out = MatchesOf(x.cat, LookupOf(results))]
    /\ UNCHANGED <<tokenCache, fetchQueue, calls, analyzeLog, stranded, lvars, cvars, svars>>

\* Promise.all rejects as soon as one call of the transform has rejected;
\* transform and tokenizeNames have no catch, so transform rejects with it.
TransformReject(t) ==
    /\ xforms[t].pc = "awaiting"
    /\ \E c \in CallsOf(t) : calls[c].pc = "rejected"
    /\ xforms' = [xforms EXCEPT ![t].pc = "rejected"]
    /\ UNCHANGED <<tokenCache, fetchQueue, calls, analyzeLog, stranded, lvars, cvars, svars>>

TNext ==
    \/ \E name \in Names : CallStart(name)
    \/ \E cat \in Categories : TransformStart(cat)
    \/ \E c \in DOMAIN calls : \E n \in 0..MaxTokens : AnalyzeReturns(c, n)
    \/ \E c \in DOMAIN calls : AnalyzeFails(c)
    \/ \E c \in DOMAIN calls : TimeoutWake(c)
    \/ \E t \in DOMAIN xforms : TransformJoin(t)
    \/ \E t \in DOMAIN xforms : TransformReject(t)


(***************************************************************************)
(* ElasticBestbetsLoader: state                                            *)
(*                                                                         *)
(*  indexName : this.indexName; Undefined stands for its initial `false`  *)
(*  alias     : the set of generations the alias resolves to (search      *)
(*              engine state)                                              *)
(*  gens      : the generations that exist (search engine state)          *)
(*  created   : how many generations createTimestampedIndex has created   *)
(*  begins, loads, ends : the invocations of begin, loadRecord and end so *)
(*              far, each with the await it is suspended at or how it     *)
(*              settled; a load also carries the elastic-tools calls it   *)
(*              issued (writes) and how far each has got (bulk, doc); an  *)
(*              end also carries the trace of its                         *)
(*              elastic-tools calls and their outcomes, in order, and     *)
(*              swapNo, the rank of its alias swap among the completed    *)
(*              swaps (0 before it completes)                             *)
(***************************************************************************)
Event(op, kind, index) == [op |-> op, kind |-> kind, index |-> index]


(***************************************************************************)
(* ElasticBestbetsLoader: begin                                            *)
(***************************************************************************)
\* begin(), up to the await of createTimestampedIndex.
Begin ==
    /\ Len(begins) < MaxBegins
    /\ begins' = Append(begins, [pc |-> "creating", err |-> "none"])
    /\ UNCHANGED <<indexName, alias, gens, created, loads, ends, aborts, tvars, cvars, svars>>

\* createTimestampedIndex resolves with the name of the new generation.
CreateReturns(b) ==
    /\ begins[b].pc = "creating"
    /\ created'   = created + 1
    /\ gens'      = gens \cup {created + 1}
    /\ indexName' = Some(created + 1)
    /\ begins'    = [begins EXCEPT ![b].pc = "resolved"]
    /\ UNCHANGED <<alias, loads, ends, aborts, tvars, cvars, svars>>

\* createTimestampedIndex rejects: begin logs and rethrows.
CreateFails(b) ==
    /\ begins[b].pc = "creating"
    /\ begins' = [begins EXCEPT ![b].pc = "rejected", ![b].err = "createTimestampedIndex"]
    /\ UNCHANGED <<indexName, alias, gens, created, loads, ends, aborts, tvars, cvars, svars>>

(***************************************************************************)
(* ElasticBestbetsLoader: loadRecord                                       *)
(***************************************************************************)
\* An Error thrown by loadRecord: its message, split into the fixed text
\* and the category id the message names ("none" when it names none).
LoadError(msg, id) == [msg |-> msg, id |-> id]

\* LoadRecord with the bug of leaving the length check out: an empty list
\* gets as far as the display check, which reads matches[0].contentID of
\* no match and throws a TypeError.
LoadRecord_NoLengthCheck(matches) ==
    /\ Len(loads) < MaxLoads
    /\ LET display == CategoryDisplayOf(matches)
           base    == [matches |-> matches, index |-> Undefined,
                       writes |-> <<>>, bulk |-> "none", doc |-> "none",
                       pc |-> "rejected", err |-> LoadError("none", "none")]
       IN loads' = Append(loads,
            IF display = Undefined
            THEN IF Len(matches) = 0
                 THEN [base EXCEPT !.err = LoadError("TypeError", "none")]
                 ELSE [base EXCEPT !.err = LoadError("Category <id> is missing its display",
                                                     matches[1].contentID)]
            ELSE [base EXCEPT !.index = indexName,
                              !.writes = << BulkCall(indexName, DocArrOf(matches)),
                                            DocCall(indexName, Val(display)) >>,
                              !.bulk = "pending", !.doc = "pending",
                              !.pc = "writing"])
    /\ UNCHANGED <<indexName, alias, gens, created, begins, ends, aborts, tvars, cvars, svars>>

\* loadRecord(matches), up to the await of Promise.all (or to its throw).
LoadRecord(matches) ==
    /\ Len(loads) < MaxLoads
    /\ LET display == CategoryDisplayOf(matches)
           base    == [matches |-> matches, index |-> Undefined,
                       writes |-> <<>>, bulk |-> "none", doc |-> "none",
                       pc |-> "rejected", err |-> LoadError("none", "none")]
       IN loads' = Append(loads,
            IF Len(matches) = 0
            THEN [base EXCEPT !.err = LoadError("A category resulted in 0 matches", "none")]
            ELSE IF display = Undefined
            THEN [base EXCEPT !.err = LoadError("Category <id> is missing its display",
                                                matches[1].contentID)]
            ELSE [base EXCEPT !.index = indexName,
                              !.writes = << BulkCall(indexName, DocArrOf(matches)),
                                            DocCall(indexName, Val(display)) >>,
                              !.bulk = "pending", !.doc = "pending",
                              !.pc = "writing"])
    /\ UNCHANGED <<indexName, alias, gens, created, begins, ends, aborts, tvars, cvars, svars>>

\* AfterWrites with the bug of leaving the check of the errors list out.
AfterWrites_IgnoresErrors(ld, updated, errors) ==
    IF updated
    THEN [ld EXCEPT !.pc = "rejected",
                    !.err = LoadError("Category <id> appears to have duplicates",
                                      ld.matches[1].contentID)]
    ELSE [ld EXCEPT !.pc = "resolved"]

\* What loadRecord does once both writes have resolved: the checks on the
\* result of the bulk write.
AfterWrites(ld, updated, errors) ==
    IF updated
    THEN [ld EXCEPT !.pc = "rejected",
                    !.err = LoadError("Category <id> appears to have duplicates",
                                      ld.matches[1].contentID)]
    ELSE IF errors
    THEN [ld EXCEPT !.pc = "rejected",
                    !.err = LoadError("Category <id> appears had document errors",
                                      ld.matches[1].contentID)]
    ELSE [ld EXCEPT !.pc = "resolved"]

\* BulkReturns with the bug of checking the result of the bulk write as
\* soon as it arrives (await of the bulk write alone), whether or not the
\* write of the display document has completed.
BulkReturns_ChecksAtOnce(l, updated, errors) ==
    /\ loads[l].pc = "writing"
    /\ loads[l].bulk = "pending"
    /\ LET res == IF updated THEN "updated" ELSE IF errors THEN "errors" ELSE "ok"
           ld  == [loads[l] EXCEPT !.bulk = res]
       IN loads' = [loads EXCEPT ![l] =
            IF ld.doc = "ok" \/ res # "ok" THEN AfterWrites(ld, updated, errors) ELSE ld]
    /\ UNCHANGED <<indexName, alias, gens, created, begins, ends, aborts, tvars, cvars, svars>>

\* indexDocumentBulk resolves; updated and errors tell whether the lists of
\* that name in its result are non-empty.
BulkReturns(l, updated, errors) ==
    /\ loads[l].pc = "writing"
    /\ loads[l].bulk = "pending"
    /\ LET res == IF updated THEN "updated" ELSE IF errors THEN "errors" ELSE "ok"
           ld  == [loads[l] EXCEPT !.bulk = res]
       IN loads' = [loads EXCEPT ![l] =
            IF ld.doc = "ok" THEN AfterWrites(ld, updated, errors) ELSE ld]
    /\ UNCHANGED <<indexName, alias, gens, created, begins, ends, aborts, tvars, cvars, svars>>

\* indexDocumentBulk rejects: Promise.all rejects, loadRecord logs and rethrows.
BulkFails(l) ==
    /\ loads[l].pc = "writing"
    /\ loads[l].bulk = "pending"
    /\ loads' = [loads EXCEPT ![l].bulk = "rejected", ![l].pc = "rejected",
                              ![l].err = LoadError("indexDocumentBulk rejected", "none")]
    /\ UNCHANGED <<indexName, alias, gens, created, begins, ends, aborts, tvars, cvars, svars>>

\* indexDocument (the category display) resolves.
DocReturns(l) ==
    /\ loads[l].pc = "writing"
    /\ loads[l].doc = "pending"
    /\ LET ld == [loads[l] EXCEPT !.doc = "ok"] IN
       loads' = [loads EXCEPT ![l] =
            IF ld.bulk \in {"ok", "updated", "errors"}
            THEN AfterWrites(ld, ld.bulk = "updated", ld.bulk = "errors")
            ELSE ld]
    /\ UNCHANGED <<indexName, alias, gens, created, begins, ends, aborts, tvars, cvars, svars>>

\* indexDocument rejects: Promise.all rejects, loadRecord logs and rethrows.
DocFails(l) ==
    /\ loads[l].pc = "writing"
    /\ loads[l].doc = "pending"
    /\ loads' = [loads EXCEPT ![l].doc = "rejected", ![l].pc = "rejected",
                              ![l].err = LoadError("indexDocument rejected", "none")]
    /\ UNCHANGED <<indexName, alias, gens, created, begins, ends, aborts, tvars, cvars, svars>>

(***************************************************************************)
(* ElasticBestbetsLoader: end                                              *)
(***************************************************************************)
\* end(), up to the await of optimizeIndex.
End ==
    /\ Len(ends) < MaxEnds
    /\ ends' = Append(ends,
                 [pc |-> "optimizing", err |-> "none", swapNo |-> 0,
                  trace |-> <<Event("optimizeIndex", "call", indexName)>>])
    /\ UNCHANGED <<indexName, alias, gens, created, begins, loads, aborts, tvars, cvars, svars>>

\* optimizeIndex resolves: end goes on to setAliasToSingleIndex.
OptimizeReturns(e) ==
    /\ ends[e].pc = "optimizing"
    /\ ends' = [ends EXCEPT
                  ![e].pc = "aliasing",
                  ![e].trace = @ \o << Event("optimizeIndex", "ok", Undefined),
                                       Event("setAliasToSingleIndex", "call", indexName) >>]
    /\ UNCHANGED <<indexName, alias, gens, created, begins, loads, aborts, tvars, cvars, svars>>

\* OptimizeFails with the bug of a catch block that logs and does not
\* rethrow: end carries on to the alias swap.
OptimizeFails_Swallowed(e) ==
    /\ ends[e].pc = "optimizing"
    /\ ends' = [ends EXCEPT
                  ![e].pc = "aliasing",
                  ![e].trace = @ \o << Event("optimizeIndex", "err", Undefined),
                                       Event("setAliasToSingleIndex", "call", indexName) >>]
    /\ UNCHANGED <<indexName, alias, gens, created, begins, loads, aborts, tvars, cvars, svars>>

\* optimizeIndex rejects: end logs and rethrows.
OptimizeFails(e) ==
    /\ ends[e].pc = "optimizing"
    /\ ends' = [ends EXCEPT
                  ![e].pc = "rejected", ![e].err = "optimizeIndex",
                  ![e].trace = Append(@, Event("optimizeIndex", "err", Undefined))]
    /\ UNCHANGED <<indexName, alias, gens, created, begins, loads, aborts, tvars, cvars, svars>>

\* The index the setAliasToSingleIndex call of end e was given.
SwapIndexOf(e) ==
    LET tr == ends[e].trace
        i  == CHOOSE i \in DOMAIN tr :
                 tr[i].op = "setAliasToSingleIndex" /\ tr[i].kind = "call"
    IN tr[i].index

\* How many alias swaps have completed.
SwapsDone == Cardinality({e \in DOMAIN ends : ends[e].swapNo > 0})

\* The cleanupOldIndices call end issues.
CleanupCall ==
    [op |-> "cleanupOldIndices", kind |-> "call", index |-> Undefined,
     aliasName |-> aliasName, daysToKeep |-> daysToKeep,
     minIndexesToKeep |-> minIndexesToKeep]

\* AliasReturns with the bug of end resolving straight after the swap,
\* without the retention pruning.
AliasReturns_SkipsCleanup(e) ==
    /\ ends[e].pc = "aliasing"
    /\ alias' = SwapIndexOf(e)
    /\ ends'  = [ends EXCEPT
                   ![e].pc = "resolved", ![e].swapNo = SwapsDone + 1,
                   ![e].trace = Append(@, Event("setAliasToSingleIndex", "ok", Undefined))]
    /\ UNCHANGED <<indexName, gens, created, begins, loads, aborts, tvars, cvars, svars>>

\* AliasReturns with the bug of adding the index to the alias, as an
\* add-alias call would, instead of making it the alias's single target.
AliasReturns_AddsIndex(e) ==
    /\ ends[e].pc = "aliasing"
    /\ alias' = alias \cup SwapIndexOf(e)
    /\ ends'  = [ends EXCEPT
                   ![e].pc = "cleaning", ![e].swapNo = SwapsDone + 1,
                   ![e].trace = @ \o << Event("setAliasToSingleIndex", "ok", Undefined),
                                        CleanupCall >>]
    /\ UNCHANGED <<indexName, gens, created, begins, loads, aborts, tvars, cvars, svars>>

\* setAliasToSingleIndex resolves: the alias now resolves to the index it
\* was given, and end goes on to cleanupOldIndices.
AliasReturns(e) ==
    /\ ends[e].pc = "aliasing"
    /\ alias' = SwapIndexOf(e)
    /\ ends'  = [ends EXCEPT
                   ![e].pc = "cleaning", ![e].swapNo = SwapsDone + 1,
                   ![e].trace = @ \o << Event("setAliasToSingleIndex", "ok", Undefined),
                                        CleanupCall >>]
    /\ UNCHANGED <<indexName, gens, created, begins, loads, aborts, tvars, cvars, svars>>

\* AliasFails with the bug of a catch block that logs and does not rethrow:
\* end carries on to the retention pruning.
AliasFails_StillPrunes(e) ==
    /\ ends[e].pc = "aliasing"
    /\ ends' = [ends EXCEPT
                  ![e].pc = "cleaning",
                  ![e].trace = @ \o << Event("setAliasToSingleIndex", "err", Undefined),
                                       CleanupCall >>]
    /\ UNCHANGED <<indexName, alias, gens, created, begins, loads, aborts, tvars, cvars, svars>>

\* setAliasToSingleIndex rejects: end logs and rethrows.
AliasFails(e) ==
    /\ ends[e].pc = "aliasing"
    /\ ends' = [ends EXCEPT
                  ![e].pc = "rejected", ![e].err = "setAliasToSingleIndex",
                  ![e].trace = Append(@, Event("setAliasToSingleIndex", "err", Undefined))]
    /\ UNCHANGED <<indexName, alias, gens, created, begins, loads, aborts, tvars, cvars, svars>>

\* cleanupOldIndices resolves, having deleted the generations del, none of
\* which the alias resolves to: end resolves.
CleanupReturns(e, del) ==
    /\ ends[e].pc = "cleaning"
    /\ del \subseteq gens \ alias
    /\ gens' = gens \ del
    /\ ends' = [ends EXCEPT
                  ![e].pc = "resolved",
                  ![e].trace = Append(@, Event("cleanupOldIndices", "ok", Undefined))]
    /\ UNCHANGED <<indexName, alias, created, begins, loads, aborts, tvars, cvars, svars>>

\* CleanupFails with the bug of rolling the publish back: the alias is
\* pointed at the previously live generation again.
CleanupFails_RevertsAlias(e) ==
    /\ ends[e].pc = "cleaning"
    /\ alias' = PreviousGens
    /\ ends' = [ends EXCEPT
                  ![e].pc = "rejected", ![e].err = "cleanupOldIndices",
                  ![e].trace = Append(@, Event("cleanupOldIndices", "err", Undefined))]
    /\ UNCHANGED <<indexName, gens, created, begins, loads, aborts, tvars, cvars, svars>>

\* cleanupOldIndices rejects: end logs twice and rethrows.
CleanupFails(e) ==
    /\ ends[e].pc = "cleaning"
    /\ ends' = [ends EXCEPT
                  ![e].pc = "rejected", ![e].err = "cleanupOldIndices",
                  ![e].trace = Append(@, Event("cleanupOldIndices", "err", Undefined))]
    /\ UNCHANGED <<indexName, alias, gens, created, begins, loads, aborts, tvars, cvars, svars>>

\* abort(): the body is a single throw, so the promise of the async method
\* rejects at once and nothing of the instance or the search engine changes.
\* aborts holds the abort() invocations so far and how each settled.
Abort ==
    /\ Len(aborts) < MaxAborts
    /\ aborts' = Append(aborts, [pc |-> "rejected", err |-> "Not Implemented"])
    /\ UNCHANGED <<indexName, alias, gens, created, begins, loads, ends, tvars, cvars, svars>>

BeginNext ==
    \/ Begin
    \/ \E b \in DOMAIN begins : CreateReturns(b)
    \/ \E b \in DOMAIN begins : CreateFails(b)

LoadNext ==
    \/ \E m \in MatchLists : LoadRecord(m)
    \/ \E l \in DOMAIN loads : \E u, x \in BOOLEAN : BulkReturns(l, u, x)
    \/ \E l \in DOMAIN loads : BulkFails(l)
    \/ \E l \in DOMAIN loads : DocReturns(l)
    \/ \E l \in DOMAIN loads : DocFails(l)

EndNext ==
    \/ End
    \/ \E e \in DOMAIN ends : OptimizeReturns(e)
    \/ \E e \in DOMAIN ends : OptimizeFails(e)
    \/ \E e \in DOMAIN ends : AliasReturns(e)
    \/ \E e \in DOMAIN ends : AliasFails(e)
    \/ \E e \in DOMAIN ends : \E del \in SUBSET gens : CleanupReturns(e, del)
    \/ \E e \in DOMAIN ends : CleanupFails(e)

(***************************************************************************)
(* Step configuration: the static methods ValidateConfig and GetInstance   *)
(* of both classes, and the constructor of the loader.                     *)
(*                                                                         *)
(* A property of a step config is a JavaScript value, kept with its type:  *)
(* t is what typeof answers ("object" for an array), n is the number (the  *)
(* length, for an array) and s the string.                                 *)
(***************************************************************************)
JsValue(t, n, s) == [t |-> t, n |-> n, s |-> s]
JsUndefined == JsValue("undefined", 0, "")
JsFalse     == JsValue("boolean", 0, "")
JsNumber(n) == JsValue("number", n, "")
JsString(s) == JsValue("string", 0, s)
JsArray(n)  == JsValue("object", n, "")

\* !x: undefined, false, 0 and the empty string are falsy; an array is
\* truthy whatever its length.
JsFalsy(x) ==
    \/ x.t \in {"undefined", "boolean"} /\ x.n = 0
    \/ x.t = "number" /\ x.n = 0
    \/ x.t = "string" /\ x.s = ""

\* !x || typeof x !== 'string'
NotAString(x) == JsFalsy(x) \/ x.t # "string"

\* !x || typeof x !== 'number'
NotANumber(x) == JsFalsy(x) \/ x.t # "number"

\* config.socketLimit && (typeof config.socketLimit !== 'number' ||
\* config.socketLimit <= 0)
BadSocketLimit(x) == ~JsFalsy(x) /\ (x.t # "number" \/ x.n <= 0)

\* maxSockets: config.socketLimit ? config.socketLimit : 80
MaxSocketsOf(x) == IF ~JsFalsy(x) THEN x ELSE JsNumber(80)

\* The files require() finds under the application root, and the analyzers
\* the settings file defines.
LoadablePaths     == {"es-settings.json", "es-mappings.json"}
SettingsAnalyzers == {"nostem"}

\* The step configs considered: every combination of these values.  A
\* property the class never reads is left undefined.
EshostsValues          == {JsUndefined, JsArray(0), JsArray(1)}
SettingsPathValues     == {JsUndefined, JsArray(1), JsString("es-settings.json"),
                           JsString("chicken.json")}
MappingPathValues      == {JsUndefined, JsArray(1), JsString("es-mappings.json"),
                           JsString("chicken.json")}
AnalyzerValues         == {JsUndefined, JsArray(1), JsString("nostem"),
                           JsString("chicken")}
SocketLimitValues      == {JsUndefined, JsNumber(0), JsNumber(-1), JsNumber(50),
                           JsString("chicken")}
AliasNameValues        == {JsUndefined, JsNumber(5), JsString(aliasName)}
DaysToKeepValues       == {JsUndefined, JsNumber(5), JsString("ten")}
MinIndexesToKeepValues == {JsUndefined, JsNumber(3)}

LoaderConfigs ==
    [step : {"loader"}, eshosts : EshostsValues,
     settingsPath : SettingsPathValues, mappingPath : MappingPathValues,
     analyzer : {JsUndefined}, socketLimit : SocketLimitValues,
     aliasName : AliasNameValues, daysToKeep : DaysToKeepValues,
     minIndexesToKeep : MinIndexesToKeepValues]

TransformerConfigs ==
    [step : {"transformer"}, eshosts : EshostsValues,
     settingsPath : SettingsPathValues, mappingPath : {JsUndefined},
     analyzer : AnalyzerValues, socketLimit : SocketLimitValues,
     aliasName : {JsUndefined}, daysToKeep : {JsUndefined},
     minIndexesToKeep : {JsUndefined}]

Configs == LoaderConfigs \cup TransformerConfigs

\* errors.push(new Error(msg)) under a condition.
Push(cond, msg) == IF cond THEN <<msg>> ELSE <<>>

\* ElasticBestbetsLoader.ValidateConfig: the messages of the errors, in
\* the order they are pushed.
LoaderValidateConfig(c) ==
       Push(NotAString(c.mappingPath), "mappingPath is required for the elastic loader")
    \o Push(NotAString(c.settingsPath), "settingsPath is required for the elastic loader")
    \o Push(JsFalsy(c.eshosts), "eshosts is required for the elastic loader")
    \o Push(BadSocketLimit(c.socketLimit), "socketLimit must be a number greater than 0")

\* CategoryToMatchTransformer.ValidateConfig.
TransformerValidateConfig(c) ==
       Push(JsFalsy(c.eshosts), "eshosts is required for the transformer")
    \o Push(NotAString(c.settingsPath), "settingsPath is required for the transformer")
    \o Push(NotAString(c.analyzer),
            "You must supply the name of analyzer defined in the settings")
    \o Push(BadSocketLimit(c.socketLimit), "socketLimit must be a number greater than 0")

\* What a constructor or GetInstance comes to: the message of the Error it
\* throws, or ("none") the instance with the properties that depend on
\* the config.
Thrown(msg) ==
    [error |-> msg, aliasName |-> JsUndefined, daysToKeep |-> JsUndefined,
     minIndexesToKeep |-> JsUndefined, maxSockets |-> JsUndefined]

Instance(alias_, days, minIndexes, sockets) ==
    [error |-> "none", aliasName |-> alias_, daysToKeep |-> days,
     minIndexesToKeep |-> minIndexes, maxSockets |-> sockets]

\* A destructuring default: it applies when the property is undefined.
Default(x, d) == IF x.t = "undefined" THEN d ELSE x

\* LoaderConstructor with the bug of testing only that aliasName is
\* truthy, not that it is a string.
LoaderConstructor_AnyTruthyAlias(c, sockets) ==
    LET a == Default(c.aliasName, JsFalse)
        d == Default(c.daysToKeep, JsNumber(10))
        m == Default(c.minIndexesToKeep, JsNumber(2))
    IN IF JsFalsy(a)
       THEN Thrown("aliasName is required for the elastic loader")
       ELSE IF NotANumber(d)
       THEN Thrown("daysToKeep is required for the elastic loader")
       ELSE IF NotANumber(m)
       THEN Thrown("minIndexesToKeep is required for the elastic loader")
       ELSE Instance(a, d, m, sockets)

\* new ElasticBestbetsLoader(logger, estools, mappings, settings, c);
\* sockets is the maxSockets of the client inside estools.
LoaderConstructor(c, sockets) ==
    LET a == Default(c.aliasName, JsFalse)
        d == Default(c.daysToKeep, JsNumber(10))
        m == Default(c.minIndexesToKeep, JsNumber(2))
    IN IF NotAString(a)
       THEN Thrown("aliasName is required for the elastic loader")
       ELSE IF NotANumber(d)
       THEN Thrown("daysToKeep is required for the elastic loader")
       ELSE IF NotANumber(m)
       THEN Thrown("minIndexesToKeep is required for the elastic loader")
       ELSE Instance(a, d, m, sockets)

\* ElasticBestbetsLoader.GetInstance.  The full path a "cannot be loaded"
\* message ends with is left out of the message.
LoaderGetInstance(c) ==
    IF NotAString(c.mappingPath)
    THEN Thrown("mappingPath is required for the elastic loader")
    ELSE IF c.mappingPath.s \notin LoadablePaths
    THEN Thrown("mappingPath cannot be loaded")
    ELSE IF NotAString(c.settingsPath)
    THEN Thrown("settingsPath is required for the elastic loader")
    ELSE IF c.settingsPath.s \notin LoadablePaths
    THEN Thrown("settingsPath cannot be loaded")
    ELSE IF JsFalsy(c.eshosts)
    THEN Thrown("eshosts is required for the elastic loader")
    ELSE IF BadSocketLimit(c.socketLimit)
    THEN Thrown("socketLimit must be a number greater than 0")
    ELSE LoaderConstructor(c, MaxSocketsOf(c.socketLimit))

\* CategoryToMatchTransformer.GetInstance; the constructor it ends with is
\* given the client and does not throw.
TransformerGetInstance(c) ==
    IF JsFalsy(c.eshosts)
    THEN Thrown("eshosts is required for the elastic loader")
    ELSE IF BadSocketLimit(c.socketLimit)
    THEN Thrown("socketLimit must be a number greater than 0")
    ELSE IF NotAString(c.settingsPath)
    THEN Thrown("settingsPath is required for the elastic loader")
    ELSE IF c.settingsPath.s \notin LoadablePaths
    THEN Thrown("settingsPath cannot be loaded")
    ELSE IF NotAString(c.analyzer)
    THEN Thrown("You must supply the name of analyzer defined in the settings")
    ELSE IF c.analyzer.s \notin SettingsAnalyzers
    THEN Thrown("Could not find analyzer in settings")
    ELSE Instance(JsUndefined, JsUndefined, JsUndefined, MaxSocketsOf(c.socketLimit))

\* The step config c is given to ValidateConfig of its class.  config is
\* the one step config of the behaviour (see Candidates), validation the list ValidateConfig
\* returned for it, instance what GetInstance came to, constructed what
\* the loader's constructor came to when invoked with it directly.
ValidateConfig(c) ==
    /\ validation = Undefined
    /\ config' = {c}
    /\ validation' = Some(IF c.step = "loader" THEN LoaderValidateConfig(c)
                                               ELSE TransformerValidateConfig(c))
    /\ UNCHANGED <<instance, constructed, tvars, lvars, svars>>

\* The step config c is given to GetInstance of its class.
GetInstance(c) ==
    /\ instance = Undefined
    /\ config' = {c}
    /\ instance' = Some(IF c.step = "loader" THEN LoaderGetInstance(c)
                                             ELSE TransformerGetInstance(c))
    /\ UNCHANGED <<validation, constructed, tvars, lvars, svars>>

\* The loader's constructor is invoked with the step config c directly.
Construct(c) ==
    /\ constructed = Undefined
    /\ c.step = "loader"
    /\ config' = {c}
    /\ constructed' = Some(LoaderConstructor(c, JsUndefined))
    /\ UNCHANGED <<validation, instance, tvars, lvars, svars>>

\* The step configs the next invocation may be given: any, until the
\* first invocation has fixed the config of the behaviour.
Candidates == IF config = Undefined THEN Configs ELSE config

CNext ==
    \/ \E c \in Candidates : ValidateConfig(c)
    \/ \E c \in Candidates : GetInstance(c)
    \/ \E c \in Candidates : Construct(c)

AbortNext == Abort

LNext == BeginNext \/ LoadNext \/ EndNext \/ AbortNext

(***************************************************************************)
(* Specifications.  The transformer and the loader are separate objects.   *)
(* The callers of the loader are outside this repository: every method may *)
(* be invoked at any time.  LifecycleSpec is begin and end alone: the      *)
(* actions of loadRecord and abort change neither the alias nor any end.   *)
(***************************************************************************)
TransformerSpec == Init /\ [][TNext]_vars

LoaderSpec == Init /\ [][LNext]_vars

LifecycleSpec == Init /\ [][BeginNext \/ EndNext]_vars

\* begin and loadRecord alone: the actions of end and abort change no load.
LoadSpec == Init /\ [][BeginNext \/ LoadNext]_vars

\* The static methods and the constructor, applied to one step config.
ConfigSpec == Init /\ [][CNext]_vars


\* The event loop runs every timer that is due and settles every promise
\* whose inputs have settled.  Nothing bounds the search engine's answers.
FairTransformerSpec ==
    /\ TransformerSpec
    /\ \A c \in 1..MaxCalls : WF_vars(TimeoutWake(c))
    /\ WF_vars(\E t \in DOMAIN xforms : TransformJoin(t))
    /\ WF_vars(\E t \in DOMAIN xforms : TransformReject(t))


(***************************************************************************)
(* Properties of the token cache (tokenizeNameWrap)                        *)
(***************************************************************************)
KeyOf(c) == toLowerCase(calls[c].name)

\* How many analyze calls in log were for a name with key k.
AnalyzeCount(log, k) ==
    Cardinality({i \in DOMAIN log : toLowerCase(log[i]) = k})

\* At most one analyze call is outstanding for a key.
OneOutstandingPerKey ==
    \A c1, c2 \in DOMAIN calls :
        (c1 # c2 /\ calls[c1].pc = "analyze" /\ calls[c2].pc = "analyze")
            => KeyOf(c1) # KeyOf(c2)

\* C1: at most one analyze call is outstanding per lower-cased name, and
\* two concurrent requests for names that differ only in case (the second
\* made while the first one's fetch is outstanding, no other request for
\* the key) resolve to the same count after exactly one analyze call.
C1_SingleFlight ==
    /\ OneOutstandingPerKey
    /\ \A c1, c2 \in DOMAIN calls :
          ( /\ c1 < c2
            /\ calls[c1].name # calls[c2].name
            /\ KeyOf(c1) = KeyOf(c2)
            /\ {c \in DOMAIN calls : KeyOf(c) = KeyOf(c1)} = {c1, c2}
            /\ calls[c2].waited
            /\ calls[c1].pc = "resolved"
            /\ calls[c2].pc = "resolved" )
          => /\ calls[c1].res = calls[c2].res
             /\ AnalyzeCount(analyzeLog, KeyOf(c1)) = 1

\* C5: when the analyze call for a key rejects, every call that was waiting
\* on that key at that moment ends up rejected.
C5_FailureReachesWaiters ==
    \A w \in 1..MaxCalls :
        (w \in stranded) ~> (w \in DOMAIN calls /\ calls[w].pc = "rejected")

\* A call was appended to calls in this step, for a name with key k.
NewCallFor(k) ==
    /\ Len(calls') > Len(calls)
    /\ \E c \in (DOMAIN calls') \ (DOMAIN calls) : toLowerCase(calls'[c].name) = k

\* C6: after the analyze call for a key has rejected the cache holds no
\* entry for the key, and a later call for the key (made when no fetch for
\* it is outstanding) issues a fresh analyze call.
C6_RetryAfterFailure ==
    [][ \A k \in Keys :
          ( /\ \E c \in DOMAIN calls : calls[c].pc = "rejected" /\ KeyOf(c) = k
            /\ \A c \in DOMAIN calls : KeyOf(c) = k => calls[c].pc # "analyze"
            /\ \A c \in DOMAIN calls : KeyOf(c) = k => calls[c].pc # "resolved" )
          => /\ tokenCache[k] = Undefined
             /\ NewCallFor(k) =>
                  \A c \in (DOMAIN calls') \ (DOMAIN calls) :
                     toLowerCase(calls'[c].name) = k
                        => /\ calls'[c].pc = "analyze"
                           /\ AnalyzeCount(analyzeLog', k) = AnalyzeCount(analyzeLog, k) + 1
      ]_vars

\* C7: once an analyze call for a key has resolved (with any count, 0
\* included) no further analyze call is issued for that key, and every call
\* made afterwards resolves at once to the cached count.
C7_CachedAfterSuccess ==
    [][ \A k \in Keys :
          tokenCache[k] # Undefined
            => /\ AnalyzeCount(analyzeLog', k) = AnalyzeCount(analyzeLog, k)
               /\ \A c \in (DOMAIN calls') \ (DOMAIN calls) :
                     toLowerCase(calls'[c].name) = k
                        => /\ calls'[c].pc = "resolved"
                           /\ calls'[c].res = tokenCache[k]
      ]_vars

(***************************************************************************)
(* Properties of transform                                                 *)
(***************************************************************************)
\* C8: a resolved transform returns 1+m+n records: the category's own
\* record, then one per include synonym in input order, then one per
\* exclude synonym in input order.
C8_RecordCountAndOrder ==
    \A t \in DOMAIN xforms :
        xforms[t].pc = "resolved" =>
            LET cat == xforms[t].cat
                out == xforms[t].out
                m   == Len(cat.includeSynonyms)
                n   == Len(cat.excludeSynonyms)
            IN /\ Len(out) = 1 + m + n
               /\ out[1].synonym = cat.categoryName
               /\ "categoryDisplay" \in DOMAIN out[1]
               /\ \A i \in 1..m :
                     /\ out[1 + i].synonym = cat.includeSynonyms[i].name
                     /\ out[1 + i].isNegated = FALSE
               /\ \A j \in 1..n :
                     /\ out[1 + m + j].synonym = cat.excludeSynonyms[j].name
                     /\ out[1 + m + j].isNegated = TRUE

\* A transform of the DUPES category (m = 2, n = 2) has resolved.
C8_Witness ==
    \E t \in DOMAIN xforms :
        /\ xforms[t].pc = "resolved"
        /\ xforms[t].cat = CatDupes
        /\ Len(xforms[t].out) = 5

\* C9: in the output of one transform, records whose synonym texts are
\* equal ignoring case carry the same tokenCount.
C9_SameTextSameCount ==
    \A t \in DOMAIN xforms :
        xforms[t].pc = "resolved" =>
            \A i, j \in DOMAIN xforms[t].out :
                toLowerCase(xforms[t].out[i].synonym) = toLowerCase(xforms[t].out[j].synonym)
                    => xforms[t].out[i].tokenCount = xforms[t].out[j].tokenCount

\* C10: every record of a resolved transform carries a defined tokenCount,
\* the count its own call of the transform resolved to for the record's
\* text (compared ignoring case).
C10_TokenCountResolved ==
    \A t \in DOMAIN xforms :
        xforms[t].pc = "resolved" =>
            \A i \in DOMAIN xforms[t].out :
                LET rec == xforms[t].out[i] IN
                /\ rec.tokenCount # Undefined
                /\ \E c \in CallsOf(t) :
                      /\ KeyOf(c) = toLowerCase(rec.synonym)
                      /\ rec.tokenCount = calls[c].res


\* The names of a category in the order extractNamesToTokenize reads them.
InputNames(cat) ==
    <<cat.categoryName>> \o SynNames(cat.includeSynonyms)
                        \o SynNames(cat.excludeSynonyms)

\* The position at which a lower-cased text first occurs in a list of
\* lower-cased texts.
FirstOccurrence(lowered, low) ==
    CHOOSE i \in DOMAIN lowered :
        /\ lowered[i] = low
        /\ \A j \in DOMAIN lowered : lowered[j] = low => i <= j

\* C11: the names a transform extracts from its category when it starts are
\* the category name, the include names and the exclude names with
\* case-insensitive duplicates removed: no two are equal ignoring case,
\* every input name equals one of them ignoring case, and each has the
\* casing and the relative position of its first occurrence; for the DUPES
\* category they are "DUPES", "not dupe".
C11_DistinctNames ==
    [][ \A t \in (DOMAIN xforms') \ (DOMAIN xforms) :
          LET names  == xforms'[t].names
              input  == InputNames(xforms'[t].cat)
              lnames == [j \in DOMAIN names |-> toLowerCase(names[j])]
              linput == [i \in DOMAIN input |-> toLowerCase(input[i])]
          IN /\ \A i, j \in DOMAIN names : lnames[i] = lnames[j] => i = j
             /\ \A i \in DOMAIN input : \E j \in DOMAIN names : linput[i] = lnames[j]
             /\ \A j \in DOMAIN names : \E i \in DOMAIN input : linput[i] = lnames[j]
             /\ \A j \in DOMAIN names :
                   names[j] = input[FirstOccurrence(linput, lnames[j])]
             /\ \A i, j \in DOMAIN names :
                   i < j => FirstOccurrence(linput, lnames[i])
                              < FirstOccurrence(linput, lnames[j])
             /\ xforms'[t].cat = CatDupes => names = <<nmDUPES, nmNotDupe>>
      ]_vars

\* A transform of the DUPES category, whose five input names hold three
\* case-insensitive duplicates, has extracted its names.
C11_Witness ==
    \E t \in DOMAIN xforms :
        /\ xforms[t].cat = CatDupes
        /\ Len(InputNames(xforms[t].cat)) = 5
        /\ Len(xforms[t].names) = 2


\* rec[f] as JavaScript reads it: undefined when rec has no property f.
Field(rec, f) == IF f \in DOMAIN rec THEN Some(rec[f]) ELSE Undefined

\* C12: exactly one record of a transform result is the category's own
\* record: it is the first, it is marked isCategory = true, carries the
\* category's categoryDisplay, has the category name as synonym, isNegated
\* false and isExact as the category's isExactMatch; every other record is
\* marked isCategory = false and carries no categoryDisplay.
C12_CategoryRecord ==
    \A t \in DOMAIN xforms :
        xforms[t].pc = "resolved" =>
            LET cat == xforms[t].cat
                out == xforms[t].out
            IN /\ Len(out) >= 1
               /\ Field(out[1], "isCategory") = Some(TRUE)
               /\ Field(out[1], "categoryDisplay") = Some(cat.categoryDisplay)
               /\ out[1].synonym = cat.categoryName
               /\ out[1].isNegated = FALSE
               /\ out[1].isExact = cat.isExactMatch
               /\ \A i \in 2..Len(out) :
                     /\ Field(out[i], "isCategory") = Some(FALSE)
                     /\ Field(out[i], "categoryDisplay") = Undefined

\* C13: in a transform result every include record has isNegated = false
\* and every exclude record isNegated = true; each synonym record takes
\* synonym and isExact from its synonym, and category name, category id,
\* language and weight from the category.
C13_SynonymRecords ==
    \A t \in DOMAIN xforms :
        xforms[t].pc = "resolved" =>
            LET cat  == xforms[t].cat
                out  == xforms[t].out
                m    == Len(cat.includeSynonyms)
                syns == cat.includeSynonyms \o cat.excludeSynonyms
            IN /\ Len(out) = 1 + Len(syns)
               /\ \A i \in DOMAIN syns :
                     LET rec == out[1 + i] IN
                     /\ rec.isNegated = (i > m)
                     /\ rec.synonym = syns[i].name
                     /\ rec.isExact = syns[i].isExactMatch
                     /\ rec.category = cat.categoryName
                     /\ rec.contentID = cat.categoryID
                     /\ rec.language = cat.language
                     /\ Field(rec, "weight") = Some(cat.categoryWeight)


\* A call of transform t has rejected.
TokenizationFailed(t) ==
    t \in DOMAIN xforms /\ \E c \in CallsOf(t) : calls[c].pc = "rejected"

\* C14: when the tokenization of one of a category's distinct names fails,
\* the transform never resolves and returns no match list, whatever the
\* other names' calls did; it rejects, and the error it rejects with is the
\* error of a failed call of its own.
C14_FailureRejectsTransform ==
    /\ [](\A t \in DOMAIN xforms :
            /\ TokenizationFailed(t)
                  => /\ xforms[t].pc # "resolved"
                     /\ xforms[t].out = <<>>
            /\ xforms[t].pc = "rejected"
                  => /\ xforms[t].out = <<>>
                     /\ xforms[t].err \in CallsOf(t)
                     /\ calls[xforms[t].err].pc = "rejected")
    /\ \A t \in 1..MaxTransforms :
          TokenizationFailed(t) ~> (t \in DOMAIN xforms /\ xforms[t].pc = "rejected")

\* A transform has rejected although another of its names was tokenized.
C14_Witness ==
    \E t \in DOMAIN xforms :
        /\ xforms[t].pc = "rejected"
        /\ \E c \in CallsOf(t) : calls[c].pc = "resolved"


(***************************************************************************)
(* Properties of the loader's loadRecord()                                 *)
(***************************************************************************)
\* The load issued no elastic-tools call.
NoWrites(ld) == ld.writes = <<>> /\ ld.bulk = "none" /\ ld.doc = "none"

\* C15: loadRecord called with an empty match list fails with the message
\* "A category resulted in 0 matches" and issues no bulk write and no
\* document write.
C15_EmptyListFails ==
    \A l \in DOMAIN loads :
        loads[l].matches = <<>>
            => /\ loads[l].pc = "rejected"
               /\ loads[l].err = [msg |-> "A category resulted in 0 matches",
                                  id |-> "none"]
               /\ NoWrites(loads[l])

\* loadRecord has been called with the empty list.
C15_Witness == \E l \in DOMAIN loads : loads[l].matches = <<>>

\* No record of the list is marked as the category's record.
NoCategoryRecord(matches) ==
    \A i \in DOMAIN matches : Field(matches[i], "isCategory") # Some(TRUE)

\* C16: loadRecord called with a non-empty list in which no record is the
\* category's record fails with "Category <id> is missing its display",
\* <id> being the category id of the first match, and issues no bulk write
\* and no document write.
C16_MissingDisplayFails ==
    \A l \in DOMAIN loads :
        (loads[l].matches # <<>> /\ NoCategoryRecord(loads[l].matches))
            => /\ loads[l].pc = "rejected"
               /\ loads[l].err = [msg |-> "Category <id> is missing its display",
                                  id |-> loads[l].matches[1].contentID]
               /\ NoWrites(loads[l])

\* loadRecord has been called with a list of two matches of different
\* category ids, none of them marked.
C16_Witness ==
    \E l \in DOMAIN loads :
        /\ Len(loads[l].matches) = 2
        /\ NoCategoryRecord(loads[l].matches)
        /\ loads[l].matches[1].contentID # loads[l].matches[2].contentID


\* The load got past the two checks on its match list.
PassedChecks(ld) == ld.matches # <<>> /\ ~NoCategoryRecord(ld.matches)

\* The positions of the calls of one operation among the calls of a load.
WritesOf(ld, op) == {i \in DOMAIN ld.writes : ld.writes[i].op = op}

\* C17: a loadRecord call that passes its checks issues exactly one bulk
\* write, to "synonyms", and exactly one document write, to
\* "categorydisplay", both against a generation begin() created; the bulk
\* write holds exactly the matches that are not the category's record, and
\* the category's record is written as the single document only.
C17_TwoWrites ==
    \A l \in DOMAIN loads :
        PassedChecks(loads[l]) =>
            LET ld     == loads[l]
                m      == ld.matches
                others == {i \in DOMAIN m : Field(m[i], "isCategory") # Some(TRUE)}
            IN /\ Len(ld.writes) = 2
               /\ Cardinality(WritesOf(ld, "indexDocumentBulk")) = 1
               /\ Cardinality(WritesOf(ld, "indexDocument")) = 1
               /\ \A i \in DOMAIN ld.writes :
                     /\ ld.writes[i].index # Undefined
                     /\ \A g \in ld.writes[i].index : g \in 1..created
               /\ \A i \in WritesOf(ld, "indexDocumentBulk") :
                     /\ ld.writes[i].type = "synonyms"
                     /\ Len(ld.writes[i].docs) = Cardinality(others)
                     /\ \A k \in DOMAIN ld.writes[i].docs :
                           \E j \in others :
                              ld.writes[i].docs[k].doc.synonym = m[j].synonym
               /\ \A i \in WritesOf(ld, "indexDocument") :
                     /\ ld.writes[i].type = "categorydisplay"
                     /\ \E j \in DOMAIN m \ others :
                           ld.writes[i].id = m[j].contentID

\* C18: in the bulk write of a loadRecord call the document of the match
\* at position i (from 0) has the identifier "<categoryID>_<i>"; the
\* identifiers of one call are pairwise distinct, and two calls with the
\* same ordered list write the same identifiers.
C18_DocumentIds ==
    /\ \A l \in DOMAIN loads :
          \A w \in WritesOf(loads[l], "indexDocumentBulk") :
             LET docs == loads[l].writes[w].docs
                 m    == loads[l].matches
             IN /\ Len(docs) = Len(m)
                /\ \A i \in DOMAIN docs :
                      docs[i].id = m[i].contentID \o <<"_">> \o NumberToString(i - 1)
                /\ \A i, j \in DOMAIN docs : docs[i].id = docs[j].id => i = j
    /\ \A l1, l2 \in DOMAIN loads :
          loads[l1].matches = loads[l2].matches =>
             \A w1 \in WritesOf(loads[l1], "indexDocumentBulk") :
             \A w2 \in WritesOf(loads[l2], "indexDocumentBulk") :
                [i \in DOMAIN loads[l1].writes[w1].docs |-> loads[l1].writes[w1].docs[i].id]
                  = [i \in DOMAIN loads[l2].writes[w2].docs |-> loads[l2].writes[w2].docs[i].id]

\* The same list of two matches, whose category ids are "D_1" and "D",
\* has been loaded twice, against two different generations.
C18_Witness ==
    \E l1, l2 \in DOMAIN loads :
        /\ l1 # l2
        /\ loads[l1].matches = loads[l2].matches
        /\ Len(loads[l1].writes) = 2 /\ Len(loads[l2].writes) = 2
        /\ loads[l1].index # loads[l2].index
        /\ loads[l1].matches[1].contentID = idD1
        /\ loads[l1].matches[2].contentID = idD

\* C19: when the bulk write returns a non-empty list of updated documents
\* or a non-empty list of document errors the loadRecord call does not
\* succeed, and fails once both writes have returned; it succeeds only when
\* both lists are empty and both writes completed.
C19_BulkResultChecked ==
    \A l \in DOMAIN loads :
        /\ loads[l].bulk \in {"updated", "errors"}
              => /\ loads[l].pc # "resolved"
                 /\ loads[l].doc = "ok"
                       => /\ loads[l].pc = "rejected"
                          /\ loads[l].err.id = loads[l].matches[1].contentID
        /\ loads[l].pc = "resolved"
              => loads[l].bulk = "ok" /\ loads[l].doc = "ok"

\* Both writes returned, the bulk write with document errors, and the call
\* failed; another call succeeded.
C19_Witness ==
    /\ \E l \in DOMAIN loads :
          loads[l].bulk = "errors" /\ loads[l].doc = "ok" /\ loads[l].pc = "rejected"
    /\ \E l \in DOMAIN loads : loads[l].pc = "resolved"


(***************************************************************************)
(* Properties of the loader's end()                                        *)
(***************************************************************************)
IsCall(ev, op) == ev.op = op /\ ev.kind = "call"
IsOk(ev, op)   == ev.op = op /\ ev.kind = "ok"
IsErr(ev, op)  == ev.op = op /\ ev.kind = "err"

HasAliasCall(tr) == \E i \in DOMAIN tr : IsCall(tr[i], "setAliasToSingleIndex")

\* C2: the alias swap is issued only when begin() has succeeded (and none
\* has failed) and every loadRecord call made has resolved: none has
\* rejected and none is outstanding.
C2_SwapOnlyAfterLoad ==
    [][ \A e \in DOMAIN ends :
          (~HasAliasCall(ends[e].trace) /\ HasAliasCall(ends'[e].trace))
            => /\ \E b \in DOMAIN begins : begins[b].pc = "resolved"
               /\ \A b \in DOMAIN begins : begins[b].pc # "rejected"
               /\ indexName # Undefined
               /\ \A l \in DOMAIN loads : loads[l].pc = "resolved"
      ]_vars

\* The calls of one end(), in order, are a prefix of: optimizeIndex,
\* its outcome, setAliasToSingleIndex, its outcome, cleanupOldIndices,
\* its outcome; each later call follows the success of the one before.
EndOrdered(tr) ==
    /\ Len(tr) >= 1 /\ IsCall(tr[1], "optimizeIndex")
    /\ \A i \in DOMAIN tr :
          /\ IsCall(tr[i], "optimizeIndex") => i = 1
          /\ IsCall(tr[i], "setAliasToSingleIndex")
                => i > 1 /\ IsOk(tr[i - 1], "optimizeIndex")
          /\ IsCall(tr[i], "cleanupOldIndices")
                => /\ i > 1 /\ IsOk(tr[i - 1], "setAliasToSingleIndex")
                   /\ tr[i] = [op |-> "cleanupOldIndices", kind |-> "call",
                               index |-> Undefined, aliasName |-> aliasName,
                               daysToKeep |-> daysToKeep,
                               minIndexesToKeep |-> minIndexesToKeep]
          /\ IsOk(tr[i], "setAliasToSingleIndex")
                => i < Len(tr) /\ IsCall(tr[i + 1], "cleanupOldIndices")
    /\ Cardinality({i \in DOMAIN tr : IsCall(tr[i], "cleanupOldIndices")})
          = Cardinality({i \in DOMAIN tr : IsOk(tr[i], "setAliasToSingleIndex")})
    /\ Cardinality({i \in DOMAIN tr : IsCall(tr[i], "setAliasToSingleIndex")}) <= 1

\* C3: within end() the alias call is issued only after optimize has
\* completed, and pruning is issued, with the configured daysToKeep and
\* minIndexesToKeep, exactly once after every completed alias swap and
\* never before it.
C3_EndOrder == \A e \in DOMAIN ends : EndOrdered(ends[e].trace)

\* An end() has run through optimize, alias swap and pruning.
C3_Witness ==
    \E e \in DOMAIN ends :
        /\ ends[e].pc = "resolved"
        /\ \E i \in DOMAIN ends[e].trace : IsCall(ends[e].trace[i], "cleanupOldIndices")

\* The end whose alias swap completed last.
LastSwapper == CHOOSE e \in DOMAIN ends : ends[e].swapNo = SwapsDone

\* C4: an end() whose pruning failed rejects with the pruning error, and
\* the alias keeps resolving to the generation of the last completed swap:
\* this end's own generation, created by begin(), unless another end()
\* swapped after it.
C4_PruneFailureKeepsAlias ==
    \A e \in DOMAIN ends :
        (\E i \in DOMAIN ends[e].trace : IsErr(ends[e].trace[i], "cleanupOldIndices"))
            => /\ ends[e].pc = "rejected"
               /\ ends[e].err = "cleanupOldIndices"
               /\ alias = SwapIndexOf(LastSwapper)
               /\ ends[e].swapNo = SwapsDone => alias = SwapIndexOf(e)
               /\ SwapIndexOf(e) # Undefined => Val(SwapIndexOf(e)) \in 1..created

\* Pruning failed after the alias was swapped to a generation begin() created.
C4_Witness ==
    \E e \in DOMAIN ends :
        /\ ends[e].err = "cleanupOldIndices"
        /\ SwapIndexOf(e) # Undefined
        /\ alias = SwapIndexOf(e)
        /\ alias # PreviousGens

\* The setAliasToSingleIndex call of end e completes in this step.
SwapCompletes(e) ==
    /\ IsCall(ends[e].trace[Len(ends[e].trace)], "setAliasToSingleIndex")
    /\ Len(ends'[e].trace) > Len(ends[e].trace)
    /\ IsOk(ends'[e].trace[Len(ends[e].trace) + 1], "setAliasToSingleIndex")

\* C20: the alias references at most one generation in every reachable
\* state; it changes only in a step in which a setAliasToSingleIndex call
\* of end() completes, and after such a step it references exactly the
\* index that call was given.
C20_AliasSingleTarget ==
    /\ [](Cardinality(alias) <= 1)
    /\ [][ /\ alias' # alias => \E e \in DOMAIN ends : SwapCompletes(e)
           /\ \A e \in DOMAIN ends :
                 SwapCompletes(e) => alias' = SwapIndexOf(e) /\ Cardinality(alias') <= 1
         ]_vars

\* The alias has been moved from the previous generation to a new one,
\* and both generations exist.
C20_Witness ==
    /\ \E e \in DOMAIN ends : ends[e].swapNo > 0 /\ alias = SwapIndexOf(e)
    /\ \E g \in gens : alias = {g} /\ g \notin PreviousGens
    /\ PreviousGens \subseteq gens

(***************************************************************************)
(* Properties of abort()                                                   *)
(***************************************************************************)
\* This step is an invocation of abort().
AbortStep == Len(aborts') = Len(aborts) + 1

\* The abort() invocation this step adds.
NewAbort == aborts'[Len(aborts')]

\* C22: abort() invoked after a successful begin() completes without
\* error, deletes the generation this run created and leaves the alias
\* pointing where it pointed before.
C22_AbortDeletesGeneration ==
    [][ (AbortStep /\ indexName # Undefined) =>
            /\ NewAbort.pc = "resolved"
            /\ gens' = gens \ indexName
            /\ alias' = alias
      ]_vars

\* C23: abort() invoked when no generation was ever created changes
\* nothing and does not fail, and a second abort() leaves the state as the
\* first left it.
C23_AbortIdempotent ==
    [][ (AbortStep /\ (created = 0 \/ Len(aborts) > 0)) =>
            /\ NewAbort.pc = "resolved"
            /\ UNCHANGED <<indexName, alias, gens, created>>
      ]_vars

(***************************************************************************)
(* Failures of the search engine                                           *)
(***************************************************************************)
\* The begin() invocations that resolved.
ResolvedBegins == {b \in DOMAIN begins : begins[b].pc = "resolved"}

\* Every failed call of an end() is the last thing that end did, and the
\* end rejected with the error of that call.
EndFailuresRethrown ==
    \A e \in DOMAIN ends : \A i \in DOMAIN ends[e].trace :
        ends[e].trace[i].kind = "err" =>
            /\ i = Len(ends[e].trace)
            /\ ends[e].pc = "rejected"
            /\ ends[e].err = ends[e].trace[i].op

\* A loadRecord() one of whose two writes failed rejected with the error
\* of that write.
LoadFailuresRethrown ==
    \A l \in DOMAIN loads :
        /\ loads[l].bulk = "rejected" =>
               /\ loads[l].pc = "rejected"
               /\ loads[l].err = LoadError("indexDocumentBulk rejected", "none")
        /\ loads[l].doc = "rejected" =>
               /\ loads[l].pc = "rejected"
               /\ loads[l].err = LoadError("indexDocument rejected", "none")

\* A begin() resolves only by creating a generation, and one that did not
\* resolve rejected with the error of createTimestampedIndex.
BeginFailuresRethrown ==
    /\ Cardinality(ResolvedBegins) = created
    /\ \A b \in DOMAIN begins :
          /\ begins[b].pc \in {"creating", "resolved", "rejected"}
          /\ begins[b].pc = "rejected" <=> begins[b].err = "createTimestampedIndex"
    /\ ResolvedBegins = {} => indexName = Undefined

OutOfOrder ==
    \/ ResolvedBegins = {}
    \/ \E e \in DOMAIN ends : ends[e].pc = "resolved"
    \/ Len(aborts) > 0

\* C25: an operation invoked out of the lifecycle's order issues no index
\* write and no alias change: a loadRecord() invoked then issues no write,
\* and an end() invoked before any successful begin() never moves the
\* alias.
C25_LifecycleOrder ==
    /\ [][ (Len(loads') = Len(loads) + 1 /\ OutOfOrder)
              => loads'[Len(loads')].writes = <<>> ]_vars
    /\ [](\A e \in DOMAIN ends :
             ends[e].swapNo > 0 => ends[e].trace[1].index # Undefined)

(***************************************************************************)
(* Properties of the step configuration                                    *)
(***************************************************************************)
\* The config field an error message is about.
FieldOf(msg) ==
    CASE msg \in {"eshosts is required for the elastic loader",
                  "eshosts is required for the transformer"} -> "eshosts"
      [] msg \in {"settingsPath is required for the elastic loader",
                  "settingsPath is required for the transformer",
                  "settingsPath cannot be loaded"} -> "settingsPath"
      [] msg \in {"mappingPath is required for the elastic loader",
                  "mappingPath cannot be loaded"} -> "mappingPath"
      [] msg \in {"You must supply the name of analyzer defined in the settings",
                  "Could not find analyzer in settings"} -> "analyzer"
      [] msg = "socketLimit must be a number greater than 0" -> "socketLimit"
      [] msg \in {"aliasName is required for the elastic loader"} -> "aliasName"
      [] OTHER -> "other"

\* The order in which the fields are to be checked: hosts, settings path,
\* mapping path, analyzer name, socket limit.
FieldRank(f) ==
    CASE f = "eshosts" -> 1
      [] f = "settingsPath" -> 2
      [] f = "mappingPath" -> 3
      [] f = "analyzer" -> 4
      [] f = "socketLimit" -> 5
      [] OTHER -> 6

\* The fields of c that break the documented schema: a required field that
\* is missing or of the wrong type, an empty host list, a socketLimit that
\* is supplied and is not a number greater than 0.
Violations(c) ==
       {f \in {"eshosts"} : c.eshosts.t = "undefined" \/ c.eshosts = JsArray(0)}
  \cup {f \in {"settingsPath"} : c.settingsPath.t # "string"}
  \cup {f \in {"mappingPath"} : c.step = "loader" /\ c.mappingPath.t # "string"}
  \cup {f \in {"analyzer"} : c.step = "transformer" /\ c.analyzer.t # "string"}
  \cup {f \in {"socketLimit"} :
          /\ c.socketLimit.t # "undefined"
          /\ (c.socketLimit.t # "number" \/ c.socketLimit.n <= 0)}

\* C26: ValidateConfig returns the empty list for a valid config and one
\* error per violated field otherwise (so exactly one when exactly one
\* field is missing), the errors in the order hosts, settings path,
\* mapping path, analyzer name, socket limit.
C26_ValidateConfigOrder ==
    validation # Undefined =>
        LET c    == Val(config)
            errs == Val(validation)
        IN /\ Violations(c) = {} => errs = <<>>
           /\ Len(errs) = Cardinality(Violations(c))
           /\ {FieldOf(errs[i]) : i \in DOMAIN errs} = Violations(c)
           /\ \A i, j \in DOMAIN errs :
                 i < j => FieldRank(FieldOf(errs[i])) < FieldRank(FieldOf(errs[j]))

\* The schema files c names can be loaded: a path that is a string is the
\* path of a file require() finds.
SchemaFilesLoadable(c) ==
    /\ c.settingsPath.t = "string" => c.settingsPath.s \in LoadablePaths
    /\ c.mappingPath.t = "string" => c.mappingPath.s \in LoadablePaths

\* C27: for a config whose schema files can be loaded, GetInstance throws
\* if and only if ValidateConfig of the same class returns a non-empty
\* list, and then throws the message of the first error of that list.
C27_GetInstanceAgrees ==
    (validation # Undefined /\ instance # Undefined
        /\ SchemaFilesLoadable(Val(config))) =>
        LET errs == Val(validation)
            inst == Val(instance)
        IN /\ inst.error # "none" <=> errs # <<>>
           /\ errs # <<>> => inst.error = errs[1]

\* Everything in c but socketLimit is as the class requires it.
ValidButForSocketLimit(c) ==
    /\ c.eshosts = JsArray(1)
    /\ c.settingsPath.t = "string" /\ c.settingsPath.s \in LoadablePaths
    /\ c.step = "loader" =>
          /\ c.mappingPath.t = "string" /\ c.mappingPath.s \in LoadablePaths
          /\ c.aliasName = JsString(aliasName)
          /\ c.daysToKeep.t \in {"undefined", "number"}
          /\ c.minIndexesToKeep.t \in {"undefined", "number"}
    /\ c.step = "transformer" =>
          c.analyzer.t = "string" /\ c.analyzer.s \in SettingsAnalyzers

\* C28: for a config that is valid but for its socketLimit, GetInstance
\* throws "socketLimit must be a number greater than 0" when a socketLimit
\* is supplied that is not a number or is not greater than 0 (0 included);
\* otherwise maxSockets is the socketLimit supplied, or 80 when none is.
C28_SocketLimit ==
    (instance # Undefined /\ ValidButForSocketLimit(Val(config))) =>
        LET limit == Val(config).socketLimit
            inst  == Val(instance)
        IN IF limit.t = "undefined"
           THEN inst.error = "none" /\ inst.maxSockets = JsNumber(80)
           ELSE IF limit.t # "number" \/ limit.n <= 0
           THEN inst.error = "socketLimit must be a number greater than 0"
           ELSE inst.error = "none" /\ inst.maxSockets = limit

\* Everything in c but eshosts is as the class requires it.
ValidButForEshosts(c) ==
    /\ ValidButForSocketLimit([c EXCEPT !.eshosts = JsArray(1)])
    /\ ~BadSocketLimit(c.socketLimit)

\* C29: a config whose eshosts is missing or is an empty list is rejected
\* by ValidateConfig, with the eshosts error in its list, and by
\* GetInstance, with the eshosts error when nothing else is wrong.
C29_EshostsRequired ==
    (config # Undefined /\ Val(config).eshosts \in {JsUndefined, JsArray(0)}) =>
        /\ validation # Undefined =>
              \E i \in DOMAIN Val(validation) :
                  FieldOf(Val(validation)[i]) = "eshosts"
        /\ instance # Undefined =>
              /\ Val(instance).error # "none"
              /\ ValidButForEshosts(Val(config)) =>
                    FieldOf(Val(instance).error) = "eshosts"

\* The loader config c gets through every check GetInstance makes before
\* it invokes the constructor.
ValidButForConstructor(c) ==
    /\ c.step = "loader"
    /\ c.eshosts = JsArray(1)
    /\ c.settingsPath.t = "string" /\ c.settingsPath.s \in LoadablePaths
    /\ c.mappingPath.t = "string" /\ c.mappingPath.s \in LoadablePaths
    /\ c.socketLimit \in {JsUndefined, JsNumber(50)}

\* What the claim says of a loader constructed from c, k being what the
\* construction came to.
AliasNameChecked(c, k) ==
    /\ c.aliasName.t # "string" =>
          k.error = "aliasName is required for the elastic loader"
    /\ (c.aliasName = JsString(aliasName) /\ c.daysToKeep = JsUndefined
           /\ c.minIndexesToKeep = JsUndefined) =>
          /\ k.error = "none"
          /\ k.aliasName = c.aliasName
          /\ k.daysToKeep = JsNumber(10)
          /\ k.minIndexesToKeep = JsNumber(2)

\* C30: constructing a loader, directly or through GetInstance, with
\* aliasName missing or not a string throws "aliasName is required for the
\* elastic loader"; with a valid aliasName and neither daysToKeep nor
\* minIndexesToKeep supplied, the instance has daysToKeep 10 and
\* minIndexesToKeep 2.
C30_AliasNameRequired ==
    /\ constructed # Undefined => AliasNameChecked(Val(config), Val(constructed))
    /\ (instance # Undefined /\ ValidButForConstructor(Val(config))) =>
          AliasNameChecked(Val(config), Val(instance))

\* A config with a number for aliasName and nothing else wrong has been
\* given to the constructor and to GetInstance, and both threw.
C30_Witness ==
    /\ config # Undefined /\ constructed # Undefined /\ instance # Undefined
    /\ ValidButForConstructor(Val(config))
    /\ Val(config).aliasName = JsNumber(5)
    /\ Val(constructed).error = "aliasName is required for the elastic loader"
    /\ Val(instance).error = "aliasName is required for the elastic loader"

(***************************************************************************)
(* The text of the analyze calls                                           *)
(***************************************************************************)
\* The calls that issue their analyze call in this step, in the order in
\* which they issue it.
RECURSIVE IssuersFrom(_)
IssuersFrom(c) ==
    IF c > Len(calls') THEN <<>>
    ELSE IF calls'[c].pc = "analyze" /\ (c \in DOMAIN calls => calls[c].pc # "analyze")
         THEN <<c>> \o IssuersFrom(c + 1)
         ELSE IssuersFrom(c + 1)

\* C31: the text of every analyze call is the name as it was passed to the
\* tokenizeNameWrap call that issues the fetch, in its original casing;
\* the cache and the in-flight flags are kept under lower-cased keys only.
C31_AnalyzeOriginalCasing ==
    /\ [][ LET issuers == IssuersFrom(1) IN
           /\ Len(analyzeLog') = Len(analyzeLog) + Len(issuers)
           /\ \A i \in DOMAIN issuers :
                 analyzeLog'[Len(analyzeLog) + i] = calls'[issuers[i]].name
         ]_vars
    /\ [](\A k \in DOMAIN tokenCache \cup DOMAIN fetchQueue : toLowerCase(k) = k)

\* An analyze call carried "DUPES" in upper case, and its count is cached
\* under the lower-cased key.
C31_Witness ==
    /\ \E i \in DOMAIN analyzeLog :
          analyzeLog[i] = nmDUPES /\ toLowerCase(nmDUPES) # nmDUPES
    /\ tokenCache[toLowerCase(nmDUPES)] # Undefined

(***************************************************************************)
(* Termination of tokenizeNameWrap                                         *)
(***************************************************************************)
\* An analyze call has been issued and has not completed.
AnalyzeOutstanding == \E a \in DOMAIN calls : calls[a].pc = "analyze"

\* C32: every tokenizeNameWrap call completes, with a count or an error,
\* once every analyze call that was issued has completed: a call that has
\* been made is, again and again, either complete or accompanied by an
\* analyze call that is still outstanding.
C32_EveryCallCompletes ==
    \A c \in 1..MaxCalls :
        (c \in DOMAIN calls) ~>
            \/ c \in DOMAIN calls /\ calls[c].pc \in {"resolved", "rejected"}
            \/ AnalyzeOutstanding

(***************************************************************************)
(* The alias before the swap                                               *)
(***************************************************************************)
\* An optimizeIndex call of some end() fails in this step.
OptimizeFailsStep ==
    \E e \in DOMAIN ends :
        /\ ends[e].pc = "optimizing"
        /\ ends'[e].pc = "rejected"

\* C33: a step of begin(), a step of loadRecord() and a failed optimize
\* leave the alias as it is, and the alias never resolves to a generation
\* into which a loadRecord() has not completed successfully.
C33_AliasOnlyAfterLoad ==
    /\ [][ (begins' # begins \/ loads' # loads \/ OptimizeFailsStep)
              => alias' = alias ]_vars
    /\ [](\A g \in alias \ PreviousGens : \A l \in DOMAIN loads :
             loads[l].index = Some(g) => loads[l].pc = "resolved")

(***************************************************************************)
(* Determinism of transform                                                *)
(***************************************************************************)
\* The analyzer has given one answer per key: every call that resolved got
\* the count the cache holds for its key now.
AnswersConsistent ==
    \A c \in DOMAIN calls :
        calls[c].pc = "resolved" => calls[c].res = tokenCache[KeyOf(c)]

\* What transform(cat) returns on an instance it has to itself, when the
\* analyzer answers as the cache records it.
ExpectedMatches(cat) ==
    LET names == extractNamesToTokenize(cat) IN
    MatchesOf(cat, [nm \in {names[i] : i \in DOMAIN names} |->
                       tokenCache[toLowerCase(nm)]])

BulkResultMessages ==
    {"Category <id> appears to have duplicates",
     "Category <id> appears had document errors"}

C36_TransformOutputLoads ==
    \A t \in DOMAIN xforms :
        xforms[t].pc = "resolved" =>
            LET cat     == xforms[t].cat
                display == CategoryDisplayOf(xforms[t].out)
            IN /\ xforms[t].out # <<>>
               /\ display # Undefined
               /\ Val(display).contentid = cat.categoryID
               /\ Val(display).name = cat.categoryName
               /\ Val(display).weight = Some(cat.categoryWeight)
               /\ Val(display).content = Some(cat.categoryDisplay)

(***************************************************************************)
(* The in-flight flag                                                      *)
(***************************************************************************)
\* C37: fetchQueue[key] is true exactly while an analyze call for the key
\* is outstanding, after a successful call and after a failed one alike.
C37_FlagMeansOutstanding ==
    \A k \in Keys :
        fetchQueue[k] = "true" <=>
            \E c \in DOMAIN calls : calls[c].pc = "analyze" /\ KeyOf(c) = k

(***************************************************************************)
(* What end() leaves out after a failure                                   *)
(***************************************************************************)
\* The trace tr has an event of kind kind for the operation op.
HasEvent(tr, op, kind) ==
    \E i \in DOMAIN tr : tr[i].op = op /\ tr[i].kind = kind

\* The end() e has had no call fail.
NoFailure(e) == \A i \in DOMAIN ends[e].trace : ends[e].trace[i].kind # "err"

\* C39: an end() whose optimize failed attempts neither the alias swap
\* nor the pruning, one whose alias swap failed does not attempt the
\* pruning; such an end() rejects, and a generation is deleted only by the
\* pruning of an end() none of whose calls failed.
C39_NothingAfterFailure ==
    /\ [](\A e \in DOMAIN ends :
            LET tr == ends[e].trace IN
            /\ HasEvent(tr, "optimizeIndex", "err") =>
                  /\ ~HasEvent(tr, "setAliasToSingleIndex", "call")
                  /\ ~HasEvent(tr, "cleanupOldIndices", "call")
                  /\ ends[e].pc = "rejected"
            /\ HasEvent(tr, "setAliasToSingleIndex", "err") =>
                  /\ ~HasEvent(tr, "cleanupOldIndices", "call")
                  /\ ends[e].pc = "rejected")
    /\ [][ gens' # gens /\ ~(gens \subseteq gens') =>
             \E e \in DOMAIN ends :
                 /\ NoFailure(e)
                 /\ ends[e].pc = "cleaning"
                 /\ ends'[e].pc = "resolved" ]_vars

\* An end() has rejected on its alias swap, with a generation of this run
\* in existence, and every generation is still there.
C39_Witness ==
    /\ \E e \in DOMAIN ends :
          ends[e].pc = "rejected" /\ HasEvent(ends[e].trace, "setAliasToSingleIndex", "err")
    /\ PreviousGens \subseteq gens
    /\ \A g \in 1..created : g \in gens
    /\ created > 0

(***************************************************************************)
(* CDEBestbetsSource.getRecords: state and actions                         *)
(*                                                                         *)
(*  source        : the getRecords invocation; pc is the await it is       *)
(*                  suspended at ("listing", "fetching") or how it settled *)
(*                  ("resolved", "rejected"); err is the rejection its     *)
(*                  Promise.all has taken; out is the returned array       *)
(*  bbListings    : the Files of the listing, once getCategoryList         *)
(*                  returned (file i of the listing is the number i)       *)
(*  fetches       : one getCategory call per file of the listing; rank is  *)
(*                  the position of its settling among the settlings       *)
(*  rtnCategories : the array the map callbacks push to                    *)
(***************************************************************************)
\* The clean category getCategory builds from the published file of
\* listing entry f.
CleanCat(f) == [categoryID |-> f]

\* The errors getCategoryList and getCategory throw.
ListError == [msg |-> "Could not fetch Best Bets Categories List from server.",
              file |-> 0]
FetchError(f) == [msg |-> "Could not fetch", file |-> f]
InvalidReasons == {"Invalid BestBets Category",
                   "Invalid BestBets Category, language is empty or unknown"}
InvalidError(f, why) == [msg |-> why, file |-> f]

\* The number of getCategory calls that have settled.
Settled == Cardinality({f \in DOMAIN fetches : fetches[f].pc # "pending"})

\* The rejection Promise.all holds after the callback of file f rejected
\* with e: the first one, later ones are dropped.
FirstRejection(e) == IF source.err = Undefined THEN Some(e) ELSE source.err

\* getRecords(): an empty rtnCategories, then await getCategoryList().
GetRecords ==
    /\ source.pc = "idle"
    /\ source' = [source EXCEPT !.pc = "listing"]
    /\ rtnCategories' = <<>>
    /\ UNCHANGED <<bbListings, fetches, tvars, lvars, cvars>>

\* client.getItemsForPath returned a listing of n files: the map starts one
\* callback per file, each suspended at its getPublishedFile.
ListReturns(n) ==
    /\ source.pc = "listing"
    /\ bbListings' = Some([f \in 1..n |-> f])
    /\ fetches' = [f \in 1..n |-> [pc |-> "pending", rank |-> 0]]
    /\ source' = [source EXCEPT !.pc = "fetching"]
    /\ UNCHANGED <<rtnCategories, tvars, lvars, cvars>>

\* client.getItemsForPath rejected: getCategoryList throws, getRecords
\* rejects.
ListFails ==
    /\ source.pc = "listing"
    /\ source' = [source EXCEPT !.pc = "rejected", !.err = Some(ListError)]
    /\ UNCHANGED <<bbListings, fetches, rtnCategories, tvars, lvars, cvars>>

\* The published file of f arrived and is a valid category: the callback
\* pushes the clean category.
FileReturns(f) ==
    /\ f \in DOMAIN fetches
    /\ fetches[f].pc = "pending"
    /\ fetches' = [fetches EXCEPT ![f] = [pc |-> "resolved", rank |-> Settled + 1]]
    /\ rtnCategories' = Append(rtnCategories, CleanCat(f))
    /\ UNCHANGED <<source, bbListings, tvars, lvars, cvars>>

\* The published file of f arrived without the category root, or with a
\* language getLang does not know: getCategory throws.
FileInvalid(f, why) ==
    /\ f \in DOMAIN fetches
    /\ fetches[f].pc = "pending"
    /\ fetches' = [fetches EXCEPT ![f] = [pc |-> "rejected", rank |-> Settled + 1]]
    /\ source' = [source EXCEPT !.err = FirstRejection(InvalidError(f, why))]
    /\ UNCHANGED <<bbListings, rtnCategories, tvars, lvars, cvars>>

\* client.getPublishedFile rejected for f: getCategory throws.
FileFails(f) ==
    /\ f \in DOMAIN fetches
    /\ fetches[f].pc = "pending"
    /\ fetches' = [fetches EXCEPT ![f] = [pc |-> "rejected", rank |-> Settled + 1]]
    /\ source' = [source EXCEPT !.err = FirstRejection(FetchError(f))]
    /\ UNCHANGED <<bbListings, rtnCategories, tvars, lvars, cvars>>

\* Returning the per-file results in listing order, as the array
\* Promise.all resolves with would be.
GetRecordsJoin_ListingOrder ==
    /\ source.pc = "fetching"
    /\ \A f \in DOMAIN fetches : fetches[f].pc = "resolved"
    /\ source' = [source EXCEPT !.pc = "resolved",
                                !.out = [f \in DOMAIN fetches |-> CleanCat(f)]]
    /\ UNCHANGED <<bbListings, fetches, rtnCategories, tvars, lvars, cvars>>

\* Every callback resolved: Promise.all resolves and getRecords returns
\* rtnCategories.
GetRecordsJoin ==
    /\ source.pc = "fetching"
    /\ \A f \in DOMAIN fetches : fetches[f].pc = "resolved"
    /\ source' = [source EXCEPT !.pc = "resolved", !.out = rtnCategories]
    /\ UNCHANGED <<bbListings, fetches, rtnCategories, tvars, lvars, cvars>>

\* A callback rejected: Promise.all rejects with the first rejection and
\* getRecords rejects with it; the other callbacks go on.
GetRecordsReject ==
    /\ source.pc = "fetching"
    /\ source.err # Undefined
    /\ source' = [source EXCEPT !.pc = "rejected"]
    /\ UNCHANGED <<bbListings, fetches, rtnCategories, tvars, lvars, cvars>>

SNext ==
    \/ GetRecords
    \/ \E n \in 0..MaxFiles : ListReturns(n)
    \/ ListFails
    \/ \E f \in 1..MaxFiles : FileReturns(f)
    \/ \E f \in 1..MaxFiles, why \in InvalidReasons : FileInvalid(f, why)
    \/ \E f \in 1..MaxFiles : FileFails(f)
    \/ GetRecordsJoin
    \/ GetRecordsReject

SourceSpec == Init /\ [][SNext]_vars

\* The files of the listing whose fetch settled before that of f.
SettledBefore(f) == {g \in DOMAIN fetches :
                       fetches[g].pc # "pending" /\ fetches[g].rank < fetches[f].rank}

\* C40: a getRecords that resolved returns exactly one category per file of
\* the listing, in the order in which the per-file fetches completed; a
\* getRecords whose listing fetch failed, or one of whose per-file fetches
\* failed, does not resolve, and a rejected getRecords carries the error of
\* the listing fetch or of the first per-file fetch that failed.
C40_OneCategoryPerFile ==
    /\ source.pc = "resolved" =>
          /\ bbListings # Undefined
          /\ Len(source.out) = Len(Val(bbListings))
          /\ \A f \in DOMAIN Val(bbListings) :
                Cardinality({i \in DOMAIN source.out :
                               source.out[i] = CleanCat(Val(bbListings)[f])}) = 1
          /\ \A i, j \in DOMAIN source.out :
                i < j => fetches[source.out[i].categoryID].rank
                           < fetches[source.out[j].categoryID].rank
    /\ (\E f \in DOMAIN fetches : fetches[f].pc = "rejected") =>
          source.pc \in {"fetching", "rejected"}
    /\ (source.pc = "fetching" /\ \E f \in DOMAIN fetches : fetches[f].pc = "rejected") =>
          ENABLED GetRecordsReject
    /\ source.pc = "rejected" =>
          /\ source.err # Undefined
          /\ \/ Val(source.err) = ListError /\ bbListings = Undefined
             \/ \E f \in DOMAIN fetches :
                   /\ fetches[f].pc = "rejected"
                   /\ Val(source.err).file = f
                   /\ SettledBefore(f) \subseteq
                         {g \in DOMAIN fetches : fetches[g].pc = "resolved"}

\* getRecords resolved over a listing of several files whose fetches
\* completed in an order other than the listing's.
C40_Witness ==
    /\ source.pc = "resolved"
    /\ Len(source.out) = MaxFiles
    /\ \E i \in DOMAIN source.out : source.out[i] # CleanCat(i)

====
